---- MODULE Spec2Model ----
(***************************************************************************)
(* Model of the realtime audio session engine of Vocal-Edge-ai:            *)
(* class CommunicationCoach (services/geminiService.ts).                   *)
(*                                                                         *)
(* One CommunicationCoach instance is modelled together with the browser   *)
(* objects it drives: audio contexts, live connections, buffer sources,    *)
(* the in-flight startSession calls and the onmessage handlers that are    *)
(* suspended at `await decodeAudioData`.                                   *)
(***************************************************************************)
EXTENDS Integers, Sequences, FiniteSets, TLC

\* ---------------------------------------------------------------- bounds
\* lifecycle scenarios (SpecLife)
MaxCalls   == 2   \* startSession invocations
MaxStops   == 2   \* stopSession invocations made by the application
\* playback scenarios (SpecPlay)
MaxChunks  == 3   \* inbound messages delivered to one session
MaxClock   == 3   \* ticks of the output context's clock
\* turn aggregation scenarios (SpecTurns)
MaxMsgs    == 2   \* inbound messages delivered to one session
MaxFrames  == 1   \* capture frames delivered to onaudioprocess
MaxNow     == 1   \* ticks of the wall clock (Date.now())
\* SpecSend: one session whose capture frames are sent to the connection
MaxSends   == 3   \* capture frames delivered to onaudioprocess
\* SpecProxy: requests handled by the worker proxy
MaxRequests == 2   \* requests received by the worker
\* SpecRestart: a session replaced by a second startSession
MaxRestartMsgs == 2   \* inbound messages delivered to the two sessions
\* SpecPace: one session whose capture frames are scanned for peaks
MaxPaceFrames == 3   \* capture frames delivered to onaudioprocess
MaxPaceTicks  == 4   \* ticks of the wall clock (Date.now())

\* ------------------------------------------------------ program constants
UserRate     == 16000
ModelRate    == 24000
PeakLevel    == 4915      \* 0.15 * 32768, truncated
RefractoryMs == 150
Int16Mod     == 65536
Int16Half    == 32768

MethodNotAllowed == 405   \* workers/proxy/index.js, `Only POST allowed`
BadRequest       == 400   \* invalid JSON body, missing target
SecretMissing    == 500   \* GEMINI_API_KEY is not configured
BadGateway       == 502   \* the upstream fetch threw

NowStart == 1000          \* Date.now() when the coach is constructed
NowStep  == RefractoryMs  \* wall-clock granularity of the model

\* ------------------------------------------------------------- helpers
Max(a, b) == IF a >= b THEN a ELSE b

RemoveAt(s, i) == [j \in 1..(Len(s) - 1) |-> IF j < i THEN s[j] ELSE s[j + 1]]

\* new Int16Array(number[]): every element is converted with ToInt16
ToInt16(v) ==
    LET m == v % Int16Mod
    IN  IF m >= Int16Half THEN m - Int16Mod ELSE m

Int16Array(pcm) == [i \in 1..Len(pcm) |-> ToInt16(pcm[i])]

\* pcmToWav(samples, rate): fixed header (rate, mono, 16 bit) + raw samples
pcmToWav(samples, rate) ==
    [sampleRate |-> rate, channels |-> 1, bits |-> 16, data |-> samples]

\* Array.prototype.join('\n') over the transcript lines
RECURSIVE JoinLines(_)
JoinLines(lines) ==
    IF Len(lines) = 0 THEN <<>>
    ELSE IF Len(lines) = 1 THEN lines[1]
    ELSE lines[1] \o <<"\n">> \o JoinLines(Tail(lines))

\* ------------------------------------------------------------- inputs
NoText == <<"(absent)">>                  \* the field is not on the message

UserDeltas  == {<<"h">>}
ModelDeltas == {<<"y">>}

\* a model audio chunk: its int16 samples; duration = Len (in clock ticks)
Chunk(n) == IF n = 1 THEN <<7>> ELSE <<7, -3>>

\* LiveServerMessage.serverContent, the fields onmessage looks at
Messages ==
    [audio : 0..2, interrupted : BOOLEAN,
     inT : UserDeltas \cup {NoText}, outT : ModelDeltas \cup {NoText},
     turnComplete : BOOLEAN]

NoMsg == [audio |-> 0, interrupted |-> FALSE, inT |-> NoText,
          outT |-> NoText, turnComplete |-> FALSE]

\* capture frames: inputData[i] * 32768 for each sample of the frame
Frames == {<<100>>, <<32768>>}

VARIABLES
    session,              \* this.session: 0 (null) or a connection id
    audioContextIn,       \* this.audioContextIn: 0 (null) or a context id
    audioContextOut,      \* this.audioContextOut
    nextStartTime,        \* this.nextStartTime
    sources,              \* this.sources: set of buffer-source ids
    transcriptionHistory, \* this.transcriptionHistory
    turns,                \* this.turns
    currentUserPCM, currentAiPCM, currentUserText, currentAiText,
    peaks, lastPeakTime,
    ctxs,                 \* every AudioContext ever created
    conns,                \* every connection ever made by ai.live.connect
    calls,                \* every startSession invocation
    handlers,             \* onmessage invocations suspended at decode
    nodes,                \* every AudioBufferSourceNode ever started
    wirings,              \* capture graphs installed by onopen
    now,                  \* Date.now()
    proxy,                \* the requests the worker proxy has answered
    outbound,             \* the frames onaudioprocess accepted, and what
                          \* sendRealtimeInput put on each connection
    epoch,                \* number of resets of nextStartTime to 0
    log,                  \* transcription deltas applied, finalized turns,
                          \* turnCompletes that finalized both roles and
                          \* transcription deltas received, since the last
                          \* stopSession
    ret,                  \* value returned by the last stopSession
    stopInfo,             \* bookkeeping about the last application stop:
                          \* the calls then pending, and whether the
                          \* application asked for the critique
    counters,             \* how many inputs have been consumed
    last                  \* the operation performed by the last step

coach == <<session, audioContextIn, audioContextOut, nextStartTime, sources,
           transcriptionHistory, turns, currentUserPCM, currentAiPCM,
           currentUserText, currentAiText, peaks, lastPeakTime>>

env == <<ctxs, conns, calls, handlers, nodes, wirings, now, outbound, proxy>>

ghost == <<epoch, log, ret, stopInfo, counters, last>>

vars == <<coach, env, ghost>>

NoRet == [history |-> <<"(none)">>, recordedTurns |-> <<>>]

Op(name, m, k) == [op |-> name, msg |-> m, id |-> k]

Init ==
    /\ session = 0
    /\ audioContextIn = 0
    /\ audioContextOut = 0
    /\ nextStartTime = 0
    /\ sources = {}
    /\ transcriptionHistory = <<>>
    /\ turns = <<>>
    /\ currentUserPCM = <<>>
    /\ currentAiPCM = <<>>
    /\ currentUserText = <<>>
    /\ currentAiText = <<>>
    /\ peaks = 0
    /\ lastPeakTime = 0
    /\ ctxs = <<>>
    /\ conns = <<>>
    /\ calls = <<>>
    /\ handlers = <<>>
    /\ nodes = <<>>
    /\ wirings = {}
    /\ now = NowStart
    /\ outbound = [captured |-> <<>>, wire |-> <<>>, mark |-> 0]
    /\ proxy = <<>>
    /\ epoch = 0
    /\ log = [lines |-> <<>>, finalized |-> 0, both |-> 0, heard |-> <<>>]
    /\ ret = NoRet
    /\ stopInfo = [valid |-> FALSE, pending |-> {}, analysis |-> FALSE]
    /\ counters = [stops |-> 0, msgs |-> 0, frames |-> 0, now |-> 0]
    /\ last = Op("init", NoMsg, 0)

\* ------------------------------------------------------------ stopSession
\* The turns flushed by lines 352-359
\* faulty variants of FlushNeeded: flush unconditionally / only transcribed turns
FlushAlways(text, pcm) == TRUE

FlushTranscribed(text, pcm) == text # <<>>

\* `this.currentUserText || this.currentUserPCM.length > 0` (lines 352, 356)
FlushNeeded(text, pcm) == text # <<>> \/ Len(pcm) > 0

FlushUser ==
    IF FlushNeeded(currentUserText, currentUserPCM)
    THEN << [id |-> <<"u-final-", now>>, role |-> "user",
             text |-> currentUserText,
             audioUrl |-> pcmToWav(Int16Array(currentUserPCM), UserRate)] >>
    ELSE <<>>

FlushAi ==
    IF FlushNeeded(currentAiText, currentAiPCM)
    THEN << [id |-> <<"m-final-", now>>, role |-> "model",
             text |-> currentAiText,
             audioUrl |-> pcmToWav(Int16Array(currentAiPCM), ModelRate)] >>
    ELSE <<>>

\* faulty variant: the connection is left open
KeepOpen(cs) == cs

\* session.close() (line 340): the socket starts closing; its close event,
\* and with it the onclose callback, is delivered later
CloseSession(cs) ==
    IF session # 0 /\ cs[session].state = "open"
    THEN [cs EXCEPT ![session].state = "closing"]
    ELSE cs

\* faulty variant: only the capture context is closed
CloseInputOnly(xs) ==
    [i \in 1..Len(xs) |->
        IF i = audioContextIn THEN [xs[i] EXCEPT !.state = "closed"] ELSE xs[i]]

\* audioContextIn.close(), audioContextOut.close() (lines 343-350)
CloseContexts(xs) ==
    [i \in 1..Len(xs) |->
        IF i \in {audioContextIn, audioContextOut}
        THEN [xs[i] EXCEPT !.state = "closed"]
        ELSE xs[i]]

StopResult ==
    [history |-> JoinLines(transcriptionHistory),
     recordedTurns |-> turns \o FlushUser \o FlushAi]

\* bookkeeping of `this.peaks = 0`: the frames accepted so far precede the
\* reset
PaceMark == [outbound EXCEPT !.mark = Len(outbound.captured)]

\* a faulty variant of StopResets: the turn list and the pace counter survive
StopResetsPartial ==
    /\ transcriptionHistory' = <<>>
    /\ turns' = turns
    /\ currentUserPCM' = <<>>
    /\ currentAiPCM' = <<>>
    /\ currentUserText' = <<>>
    /\ currentAiText' = <<>>
    /\ peaks' = peaks
    /\ outbound' = PaceMark
    /\ ret' = StopResult
    /\ log' = [lines |-> <<>>, finalized |-> 0, both |-> 0, heard |-> <<>>]

\* lines 361-371: the value returned and the fields reset
StopResets ==
    /\ transcriptionHistory' = <<>>
    /\ turns' = <<>>
    /\ currentUserPCM' = <<>>
    /\ currentAiPCM' = <<>>
    /\ currentUserText' = <<>>
    /\ currentAiText' = <<>>
    /\ peaks' = 0
    /\ outbound' = PaceMark
    /\ ret' = StopResult
    /\ log' = [lines |-> <<>>, finalized |-> 0, both |-> 0, heard |-> <<>>]

\* lines 339-342: the connection is closed and the handle cleared
StopConnection ==
    /\ conns' = CloseSession(conns)
    /\ session' = 0

\* handleEndSession of the application asks for the critique right after
\* stopSession has returned, unless `text.trim()` is empty
NotBlank(text) == \E k \in 1..Len(text) : text[k] \notin {"\n", " "}

Pending == {i \in 1..Len(calls) : calls[i].pc \notin {"done", "failed", "hung"}}

\* stopSession() called by the application
StopSession ==
    /\ counters' = [counters EXCEPT !.stops = @ + 1]
    /\ StopConnection
    /\ ctxs' = CloseContexts(ctxs)
    /\ audioContextIn' = 0
    /\ audioContextOut' = 0
    /\ StopResets
    /\ stopInfo' = [valid |-> TRUE, pending |-> Pending,
                    analysis |-> NotBlank(StopResult.history)]
    /\ last' = Op("stopSession", NoMsg, 0)
    /\ UNCHANGED <<nextStartTime, sources, lastPeakTime, calls, handlers,
                   nodes, wirings, now, epoch>>
    /\ UNCHANGED proxy

\* ----------------------------------------------------------- startSession
NewContext(st, rate) == [state |-> st, rate |-> rate, time |-> 0]

CtxStates == {"running", "suspended"}

SetPc(i, pc) == [calls EXCEPT ![i].pc = pc]

\* lines 188-195, reached once both contexts are running; reads the fields
\* as they are when the call gets there
Line188(i, cs) ==
    IF audioContextIn' = 0
    THEN \* this.audioContextIn.createAnalyser() on null: the call rejects
         /\ calls' = [cs EXCEPT ![i].pc = "failed"]
         /\ UNCHANGED <<turns, currentUserPCM, currentAiPCM, peaks,
                        nextStartTime, epoch, log, outbound>>
    ELSE /\ calls' = [cs EXCEPT ![i].pc = "getUserMedia"]
         /\ log' = [log EXCEPT !.finalized = 0, !.both = 0]
         /\ turns' = <<>>
         /\ currentUserPCM' = <<>>
         /\ currentAiPCM' = <<>>
         /\ peaks' = 0
         /\ outbound' = PaceMark
         /\ nextStartTime' = 0
         /\ epoch' = epoch + 1

\* startSession(...) up to its first await (lines 178-197).  Both contexts
\* are constructed in the same synchronous block, so the autoplay policy gives
\* them the same initial state st.
StartSession(st) ==
    /\ LET sIn  == st
           sOut == st
           i  == Len(calls) + 1
           cI == Len(ctxs) + 1
           cO == Len(ctxs) + 2
           pc == IF sIn = "suspended" THEN "resumeIn"
                 ELSE IF sOut = "suspended" THEN "resumeOut"
                 ELSE "getUserMedia"
       IN  /\ StopConnection
           /\ StopResets
           /\ ctxs' = CloseContexts(ctxs) \o
                        <<NewContext(sIn, UserRate), NewContext(sOut, ModelRate)>>
           /\ audioContextIn' = cI
           /\ audioContextOut' = cO
           /\ calls' = Append(calls, [pc |-> pc, conn |-> 0, ctxIn |-> cI,
                                      ctxOut |-> cO, wait |-> cI,
                                      stream |-> "none"])
           /\ IF pc = "getUserMedia"
              THEN nextStartTime' = 0 /\ epoch' = epoch + 1
              ELSE UNCHANGED <<nextStartTime, epoch>>
           /\ stopInfo' = [valid |-> FALSE, pending |-> {}, analysis |-> FALSE]
           /\ last' = Op("startSession", NoMsg, i)
    /\ UNCHANGED <<sources, lastPeakTime, handlers, nodes, wirings, now, counters>>
    /\ UNCHANGED proxy

\* `await this.audioContextIn.resume()` settles (line 185), then line 186
ResumeIn(i) ==
    /\ i \in 1..Len(calls)
    /\ calls[i].pc = "resumeIn"
    /\ last' = Op("resumeIn", NoMsg, i)
    /\ UNCHANGED <<session, sources, transcriptionHistory, currentUserText,
                   currentAiText, lastPeakTime, conns, handlers, nodes,
                   wirings, now, ret, stopInfo, counters>>
    /\ UNCHANGED <<audioContextIn, audioContextOut>>
    /\ IF ctxs[calls[i].wait].state = "closed"
       THEN \* resume() of a closed context rejects
            /\ calls' = SetPc(i, "failed")
            /\ UNCHANGED <<ctxs, turns, currentUserPCM, currentAiPCM, peaks,
                           nextStartTime, epoch, log, outbound>>
       ELSE /\ ctxs' = [ctxs EXCEPT ![calls[i].wait].state = "running"]
            /\ IF audioContextOut = 0
               THEN \* this.audioContextOut.state on null
                    /\ calls' = SetPc(i, "failed")
                    /\ UNCHANGED <<turns, currentUserPCM, currentAiPCM, peaks,
                                   nextStartTime, epoch, log, outbound>>
               ELSE IF ctxs[audioContextOut].state = "suspended"
               THEN /\ calls' = [calls EXCEPT ![i].pc = "resumeOut",
                                              ![i].wait = audioContextOut]
                    /\ UNCHANGED <<turns, currentUserPCM, currentAiPCM, peaks,
                                   nextStartTime, epoch, log, outbound>>
               ELSE Line188(i, calls)
    /\ UNCHANGED proxy

\* `await this.audioContextOut.resume()` settles (line 186), then 188-197
ResumeOut(i) ==
    /\ i \in 1..Len(calls)
    /\ calls[i].pc = "resumeOut"
    /\ last' = Op("resumeOut", NoMsg, i)
    /\ UNCHANGED <<session, sources, transcriptionHistory, currentUserText,
                   currentAiText, lastPeakTime, conns, handlers, nodes,
                   wirings, now, ret, stopInfo, counters>>
    /\ UNCHANGED <<audioContextIn, audioContextOut>>
    /\ IF ctxs[calls[i].wait].state = "closed"
       THEN /\ calls' = SetPc(i, "failed")
            /\ UNCHANGED <<ctxs, turns, currentUserPCM, currentAiPCM, peaks,
                           nextStartTime, epoch, log, outbound>>
       ELSE /\ ctxs' = [ctxs EXCEPT ![calls[i].wait].state = "running"]
            /\ Line188(i, calls)
    /\ UNCHANGED proxy

\* `await navigator.mediaDevices.getUserMedia(...)` settles (line 197);
\* when it resolves, the call holds a live microphone stream in its local
\* `stream` and ai.live.connect(...) is called (line 199)
GetUserMedia(i, granted) ==
    /\ i \in 1..Len(calls)
    /\ calls[i].pc = "getUserMedia"
    /\ IF granted
       THEN /\ conns' = Append(conns, [state |-> "connecting", call |-> i])
            /\ calls' = [calls EXCEPT ![i].pc = "connect",
                                      ![i].conn = Len(conns) + 1,
                                      ![i].stream = "live"]
       ELSE /\ calls' = SetPc(i, "failed")
            /\ UNCHANGED conns
    /\ last' = Op(IF granted THEN "connect" ELSE "micDenied", NoMsg, i)
    /\ UNCHANGED <<coach, ctxs, handlers, nodes, wirings, now, epoch, log, ret,
                   stopInfo, counters>>
    /\ UNCHANGED outbound
    /\ UNCHANGED proxy

\* the handshake completes: onopen runs (lines 211-241) and, when the
\* promise of connect resolves, `this.session = await sessionPromise` (323).
\* onopen dereferences this.audioContextIn; when it throws, the library
\* either still resolves the promise or leaves it pending for ever.
Handshake(i, resolves) ==
    /\ i \in 1..Len(calls)
    /\ calls[i].pc = "connect"
    /\ LET c == calls[i].conn
       IN  /\ conns[c].state = "connecting"
           /\ conns' = [conns EXCEPT ![c].state = "open"]
           /\ IF audioContextIn = 0
              THEN /\ UNCHANGED wirings
                   /\ IF resolves
                      THEN session' = c /\ calls' = SetPc(i, "done")
                      ELSE UNCHANGED session /\ calls' = SetPc(i, "hung")
              ELSE /\ resolves
                   /\ wirings' = wirings \cup {[ctx |-> audioContextIn, conn |-> c]}
                   /\ session' = c
                   /\ calls' = SetPc(i, "done")
    /\ last' = Op("onopen", NoMsg, i)
    /\ UNCHANGED <<audioContextIn, audioContextOut, nextStartTime, sources,
                   transcriptionHistory, turns, currentUserPCM, currentAiPCM,
                   currentUserText, currentAiText, peaks, lastPeakTime,
                   ctxs, handlers, nodes, now, epoch, log, ret, stopInfo, counters>>
    /\ UNCHANGED outbound
    /\ UNCHANGED proxy

\* the connection cannot be established: the library reports it through
\* onerror and onclose (lines 311-319), and the promise awaited at line 323
\* is rejected, so that startSession throws, or is left pending for ever.
ConnectFail(i, rejects) ==
    /\ i \in 1..Len(calls)
    /\ calls[i].pc = "connect"
    /\ conns[calls[i].conn].state = "connecting"
    /\ conns' = [conns EXCEPT ![calls[i].conn].state = "closed"]
    /\ session' = 0
    /\ calls' = SetPc(i, IF rejects THEN "failed" ELSE "hung")
    /\ last' = Op(IF rejects THEN "connectFailed" ELSE "connectHung", NoMsg, i)
    /\ UNCHANGED <<audioContextIn, audioContextOut, nextStartTime, sources,
                   transcriptionHistory, turns, currentUserPCM, currentAiPCM,
                   currentUserText, currentAiText, peaks, lastPeakTime,
                   ctxs, handlers, nodes, wirings, now, epoch, log, ret,
                   stopInfo, counters>>
    /\ UNCHANGED outbound
    /\ UNCHANGED proxy

\* faulty variant: a closed connection is replaced by a new one
Reconnected(cs, c) ==
    Append([cs EXCEPT ![c].state = "closed"],
           [state |-> "connecting", call |-> cs[c].call])

\* the connections after onclose or onerror of connection c (lines 311-319):
\* c is closed and neither handler calls ai.live.connect
ConnectionClosed(cs, c) == [cs EXCEPT ![c].state = "closed"]

\* the close event of a connection: onclose (lines 311-314); it follows a
\* local close() or comes from the remote side.  onerror (315-319) has the
\* same effect on the coach.
CloseEvent(c, kind) ==
    /\ c \in 1..Len(conns)
    /\ conns[c].state \in {"open", "closing"}
    /\ conns[c].state = "closing" => kind = "onclose"
    /\ conns' = ConnectionClosed(conns, c)
    /\ session' = 0
    /\ last' = Op(kind, NoMsg, c)
    /\ UNCHANGED <<audioContextIn, audioContextOut, nextStartTime, sources,
                   transcriptionHistory, turns, currentUserPCM, currentAiPCM,
                   currentUserText, currentAiText, peaks, lastPeakTime,
                   ctxs, calls, handlers, nodes, wirings, now, epoch, log, ret,
                   stopInfo, counters>>
    /\ UNCHANGED outbound
    /\ UNCHANGED proxy

\* -------------------------------------------------------------- onmessage
Abs(v) == IF v < 0 THEN -v ELSE v

UserLine(t) == <<"User: ">> \o t
AiLine(t)   == <<"AI: ">> \o t

\* a faulty variant of CursorAfterStart: the cursor is not advanced
CursorKept(nst, dur) == nst

\* `this.nextStartTime += audioBuffer.duration` (line 259)
CursorAfterStart(nst, dur) == nst + dur

\* faulty variant: the cursor is set to the clock at every arrival
CursorFromClock(nst, clock) == clock

\* `Math.max(this.nextStartTime, this.audioContextOut!.currentTime)` (252)
CursorAtArrival(nst, clock) == Max(nst, clock)

\* a faulty variant of StopAll: the active sources keep playing
StopNone(nds, src) == nds

\* `this.sources.forEach(s => s.stop())` (lines 264-266)
StopAll(nds, src) ==
    [n \in 1..Len(nds) |->
        IF n \in src /\ nds[n].state = "scheduled"
        THEN [nds[n] EXCEPT !.state = "stopped"]
        ELSE nds[n]]

\* a faulty variant of HasText: a turn is finalized whatever the pending text
AnyText(t) == TRUE

\* `if (this.currentUserText)`, `if (this.currentAiText)` (lines 286, 298)
HasText(t) == t # <<>>

\* faulty variant: the model's turn is pushed first
ModelFirst(u, a) == a \o u

\* the user block (lines 286-297) runs before the model block (298-308)
TurnOrder(u, a) == u \o a

\* faulty variant: an interruption discards the model's pending samples
InterruptDiscards(m, pcm) == IF m.interrupted THEN <<>> ELSE pcm

\* the model's pending samples after the interrupted block (lines 263-270),
\* which stops the sources and resets the cursor and touches nothing else
InterruptKeeps(m, pcm) == pcm

\* the transcription deltas message m carries (lines 272, 278)
Deltas(m) ==
    (IF m.inT # NoText THEN <<<<"user", m.inT>>>> ELSE <<>>)
    \o (IF m.outT # NoText THEN <<<<"model", m.outT>>>> ELSE <<>>)

\* bookkeeping of a message with audio being delivered to onmessage
Heard(m) == [log EXCEPT !.heard = @ \o Deltas(m)]

\* lines 263-309: everything onmessage does after the audio part, applied to
\* the playback state (nst, src, nds) the audio part left behind
Rest(m, nst, src, nds) ==
    LET uText == IF m.inT # NoText THEN currentUserText \o m.inT
                 ELSE currentUserText
        aText == IF m.outT # NoText THEN currentAiText \o m.outT
                 ELSE currentAiText
        hist1 == IF m.inT # NoText
                 THEN Append(transcriptionHistory, UserLine(m.inT))
                 ELSE transcriptionHistory
        hist2 == IF m.outT # NoText THEN Append(hist1, AiLine(m.outT))
                 ELSE hist1
        uDone == m.turnComplete /\ HasText(uText)
        aDone == m.turnComplete /\ HasText(aText)
        uTurn == [id |-> <<"u-", now>>, role |-> "user", text |-> uText,
                  audioUrl |-> pcmToWav(Int16Array(currentUserPCM), UserRate)]
        aTurn == [id |-> <<"m-", now>>, role |-> "model", text |-> aText,
                  audioUrl |-> pcmToWav(Int16Array(currentAiPCM), ModelRate)]
    IN  /\ IF m.interrupted
           THEN /\ nodes' = StopAll(nds, src)
                /\ sources' = {}
                /\ nextStartTime' = 0
                /\ epoch' = epoch + 1
           ELSE /\ nodes' = nds
                /\ sources' = src
                /\ nextStartTime' = nst
                /\ epoch' = epoch
        /\ transcriptionHistory' = hist2
        /\ turns' = turns \o TurnOrder(IF uDone THEN <<uTurn>> ELSE <<>>,
                                        IF aDone THEN <<aTurn>> ELSE <<>>)
        /\ currentUserPCM' = IF uDone THEN <<>> ELSE currentUserPCM
        /\ currentUserText' = IF uDone THEN <<>> ELSE uText
        /\ currentAiPCM' = IF aDone THEN <<>>
                           ELSE InterruptKeeps(m, currentAiPCM)
        /\ currentAiText' = IF aDone THEN <<>> ELSE aText
        /\ log' = [lines |-> log.lines
                             \o (IF m.inT # NoText THEN <<<<"user", m.inT>>>> ELSE <<>>)
                             \o (IF m.outT # NoText THEN <<<<"model", m.outT>>>> ELSE <<>>),
                   finalized |-> log.finalized
                             + (IF uDone THEN 1 ELSE 0) + (IF aDone THEN 1 ELSE 0),
                   both |-> log.both + (IF uDone /\ aDone THEN 1 ELSE 0),
                   heard |-> IF m.audio # 0 THEN log.heard
                             ELSE log.heard \o Deltas(m)]

\* onmessage(message), from its entry to its end or to the await of line 253
OnMessage(c, m) ==
    /\ c \in 1..Len(conns)
    /\ conns[c].state = "open"
    /\ counters' = [counters EXCEPT !.msgs = @ + 1]
    /\ UNCHANGED <<session, audioContextIn, audioContextOut, peaks,
                   lastPeakTime, ctxs, conns, calls, wirings, now, ret,
                   stopInfo>>
    /\ IF m.audio # 0
       THEN /\ currentAiPCM' = currentAiPCM \o Chunk(m.audio)
            /\ log' = Heard(m)
            /\ UNCHANGED <<sources, transcriptionHistory, turns,
                           currentUserPCM, currentUserText, currentAiText,
                           nodes, epoch>>
            /\ IF audioContextOut = 0
               THEN \* this.audioContextOut!.currentTime on null (line 252)
                    /\ UNCHANGED <<nextStartTime, handlers>>
                    /\ last' = Op("onmessageThrow", m, c)
               ELSE /\ nextStartTime' =
                         CursorAtArrival(nextStartTime, ctxs[audioContextOut].time)
                    /\ handlers' = Append(handlers,
                         [msg |-> m, conn |-> c,
                          seq |-> counters.msgs + 1,
                          before |-> currentAiPCM,
                          epoch |-> epoch, stops |-> counters.stops])
                    /\ last' = Op("onmessageAwait", m, c)
       ELSE /\ Rest(m, nextStartTime, sources, nodes)
            /\ UNCHANGED handlers
            /\ last' = Op("onmessage", m, c)
    /\ UNCHANGED outbound
    /\ UNCHANGED proxy

\* the await of line 253 settles: lines 254-260, then the rest of onmessage
Resume(h) ==
    /\ h \in 1..Len(handlers)
    /\ handlers' = RemoveAt(handlers, h)
    /\ UNCHANGED <<session, audioContextIn, audioContextOut, peaks,
                   lastPeakTime, ctxs, conns, calls, wirings, now, ret,
                   stopInfo, counters>>
    /\ LET m == handlers[h].msg
       IN  IF audioContextOut = 0
           THEN \* this.audioContextOut!.createBufferSource() on null (254)
                /\ UNCHANGED <<nextStartTime, sources, transcriptionHistory,
                               turns, currentUserPCM, currentAiPCM,
                               currentUserText, currentAiText, nodes, epoch,
                               log>>
                /\ last' = Op("resumeThrow", m, handlers[h].conn)
           ELSE LET n    == Len(nodes) + 1
                    node == [ctx |-> audioContextOut, start |-> nextStartTime,
                             dur |-> m.audio,
                             at |-> ctxs[audioContextOut].time,
                             state |-> "scheduled", epoch |-> epoch,
                             arrived |-> handlers[h].epoch]
                IN  /\ Rest(m, CursorAfterStart(nextStartTime, m.audio),
                            sources \cup {n},
                            Append(nodes, node))
                    /\ last' = Op("scheduled", m, n)
    /\ UNCHANGED outbound
    /\ UNCHANGED proxy

\* the promise awaited at line 253 is rejected: the exception leaves
\* onmessage, which has no try/catch, and lines 254-309 are not run
DecodeFails(h) ==
    /\ h \in 1..Len(handlers)
    /\ handlers' = RemoveAt(handlers, h)
    /\ last' = Op("decodeFailed", handlers[h].msg, handlers[h].conn)
    /\ UNCHANGED <<coach, ctxs, conns, calls, nodes, wirings, now, epoch, log,
                   ret, stopInfo, counters>>
    /\ UNCHANGED outbound
    /\ UNCHANGED proxy

\* a chunk whose bytes are not whole 16-bit samples: decode or
\* `new Int16Array(audioData.buffer)` throws (lines 245-246) and onmessage
\* ends there
BadChunk(c, m) ==
    /\ c \in 1..Len(conns)
    /\ conns[c].state = "open"
    /\ m.audio # 0
    /\ counters' = [counters EXCEPT !.msgs = @ + 1]
    /\ last' = Op("badChunk", m, c)
    /\ log' = Heard(m)
    /\ UNCHANGED <<coach, ctxs, conns, calls, handlers, nodes, wirings, now,
                   epoch, ret, stopInfo>>
    /\ UNCHANGED outbound
    /\ UNCHANGED proxy

\* --------------------------------------------------------- onaudioprocess
\* faulty variant: no refractory interval
IsLoud(val, t, lastT) == Abs(val) > PeakLevel

\* `Math.abs(inputData[i]) > 0.15 && Date.now() - this.lastPeakTime > 150`
\* (line 224), on the sample scaled by 32768
IsPeak(val, t, lastT) == Abs(val) > PeakLevel /\ t - lastT > RefractoryMs

\* the loop of lines 220-228 over the samples of one frame
RECURSIVE CaptureLoop(_, _)
CaptureLoop(frame, st) ==
    IF Len(frame) = 0 THEN st
    ELSE LET val  == Head(frame)
             peak == IsPeak(val, now, st.lastPeakTime)
         IN  CaptureLoop(Tail(frame),
                 [pcm |-> Append(st.pcm, val),
                  peaks |-> IF peak THEN st.peaks + 1 ELSE st.peaks,
                  lastPeakTime |-> IF peak THEN now ELSE st.lastPeakTime])

\* createBlob(inputData): the frame as 16-bit PCM with its MIME type
createBlob(frame) ==
    [data |-> Int16Array(frame), mimeType |-> "audio/pcm;rate=16000"]

\* faulty variant: the newest frame overtakes the earlier ones
EnqueueFront(q, e) == <<e>> \o q

\* `sessionPromise.then(...)` (lines 231-237): the callbacks registered on
\* one promise run in the order in which they were registered
Enqueue(q, e) == Append(q, e)

\* faulty variant: a failed send undoes the capture of the frame
CaptureStateIfSent(frame, sent) ==
    IF sent
    THEN CaptureLoop(frame, [pcm |-> currentUserPCM, peaks |-> peaks,
                             lastPeakTime |-> lastPeakTime])
    ELSE [pcm |-> currentUserPCM, peaks |-> peaks,
          lastPeakTime |-> lastPeakTime]

\* what onaudioprocess has written when the send of its frame is over: the
\* loop of lines 220-228 runs before the send, and an exception of
\* sendRealtimeInput is caught at lines 232-236
CaptureState(frame, sent) ==
    CaptureLoop(frame, [pcm |-> currentUserPCM, peaks |-> peaks,
                        lastPeakTime |-> lastPeakTime])

\* faulty variant: frames are handled whatever the handle
NeverDropped(s) == FALSE

\* `if (!this.session) return;` (line 217)
FrameDropped(s) == s = 0

\* scriptProcessor.onaudioprocess of a capture graph whose context runs;
\* the send either reaches the connection or fails
Capture(w, frame) ==
    /\ w \in wirings
    /\ ctxs[w.ctx].state = "running"
    /\ counters' = [counters EXCEPT !.frames = @ + 1]
    /\ IF FrameDropped(session)
       THEN /\ UNCHANGED <<currentUserPCM, peaks, lastPeakTime, outbound>>
            /\ last' = Op("captureSkipped", NoMsg, w.conn)
       ELSE \E ok \in BOOLEAN :
            LET sent == ok /\ conns[w.conn].state = "open"
                st   == CaptureState(frame, sent)
                id   == counters.frames + 1
            IN  /\ currentUserPCM' = st.pcm
                /\ peaks' = st.peaks
                /\ lastPeakTime' = st.lastPeakTime
                /\ outbound' =
                     [captured |-> Append(outbound.captured,
                                      [id |-> id, conn |-> w.conn,
                                       frame |-> frame, sent |-> sent,
                                       at |-> now]),
                      wire |-> IF sent
                               THEN Enqueue(outbound.wire,
                                        [conn |-> w.conn, id |-> id,
                                         media |-> createBlob(frame)])
                               ELSE outbound.wire,
                      mark |-> outbound.mark]
                /\ last' = Op("capture", NoMsg, w.conn)
    /\ UNCHANGED <<session, audioContextIn, audioContextOut, nextStartTime,
                   sources, transcriptionHistory, turns, currentAiPCM,
                   currentUserText, currentAiText, ctxs, conns, calls,
                   handlers, nodes, wirings, now, epoch, log, ret, stopInfo>>
    /\ UNCHANGED proxy

\* resetPaceCounter() (lines 334-336)
ResetPaceCounter ==
    /\ peaks' = 0
    /\ outbound' = PaceMark
    /\ last' = Op("resetPaceCounter", NoMsg, 0)
    /\ UNCHANGED <<session, audioContextIn, audioContextOut, nextStartTime,
                   sources, transcriptionHistory, turns, currentUserPCM,
                   currentAiPCM, currentUserText, currentAiText, lastPeakTime,
                   ctxs, conns, calls, handlers, nodes, wirings, now, epoch,
                   log, ret, stopInfo, counters>>
    /\ UNCHANGED proxy

\* ----------------------------------------------------------- worker proxy
\* workers/proxy/index.js: the file has two `export default` objects
GeminiUrl == "https://generativelanguage.googleapis.com/v1beta/models/gemini-1.5-flash:generateContent"

NoUrl == "(none)"

\* what a request brings: method, path, whether the body parses as JSON, the
\* `target` of the payload, and whether the worker has its secret
Requests ==
    [method : {"GET", "POST"}, path : {"/api/proxy", "/index.html"},
     json : BOOLEAN, target : {NoUrl, GeminiUrl, "https://other.example/"},
     secret : BOOLEAN]

\* the status the upstream (or the asset store) answers with; BadGateway
\* stands for a fetch that threw
UpstreamStatuses == {200, 429, BadGateway}

Answer(st, url, key) == [status |-> st, upstream |-> url, key |-> key]

\* the first default export (lines 44-64) and handleGeminiProxy (2-42)
FirstExport(req, up) ==
    IF req.path # "/api/proxy"
    THEN \* env.ASSETS.fetch(request): the asset store's answer is passed on
         Answer(up, NoUrl, FALSE)
    ELSE IF req.method # "POST" THEN Answer(MethodNotAllowed, NoUrl, FALSE)
    ELSE IF ~req.json THEN Answer(BadRequest, NoUrl, FALSE)
    ELSE IF ~req.secret THEN Answer(SecretMissing, NoUrl, FALSE)
    ELSE Answer(up, GeminiUrl, TRUE)

\* the second default export (lines 66-111)
SecondExport(req, up) ==
    IF req.method # "POST" THEN Answer(MethodNotAllowed, NoUrl, FALSE)
    ELSE IF ~req.json THEN Answer(BadRequest, NoUrl, FALSE)
    ELSE IF req.target = NoUrl THEN Answer(BadRequest, NoUrl, FALSE)
    ELSE Answer(up, req.target, req.secret)

\* the worker answers one request; which of the two default exports the
\* deployed module runs is not fixed by the file
ProxyRequest(second, req, up) ==
    /\ proxy' = Append(proxy, [req |-> req,
                               res |-> IF second THEN SecondExport(req, up)
                                       ELSE FirstExport(req, up)])
    /\ last' = Op("proxy", NoMsg, 0)
    /\ UNCHANGED <<coach, ctxs, conns, calls, handlers, nodes, wirings, now,
                   outbound, epoch, log, ret, stopInfo, counters>>

\* ------------------------------------------------------------ environment
\* the output context's clock (audioContextOut.currentTime) advances
Tick ==
    /\ audioContextOut # 0
    /\ ctxs[audioContextOut].state = "running"
    /\ ctxs' = [ctxs EXCEPT ![audioContextOut].time = @ + 1]
    /\ last' = Op("tick", NoMsg, 0)
    /\ UNCHANGED <<coach, conns, calls, handlers, nodes, wirings, now, epoch,
                   log, ret, stopInfo, counters>>
    /\ UNCHANGED outbound
    /\ UNCHANGED proxy

\* Date.now() advances
NowTick ==
    /\ counters' = [counters EXCEPT !.now = @ + 1]
    /\ now' = now + NowStep
    /\ last' = Op("nowTick", NoMsg, 0)
    /\ UNCHANGED <<coach, ctxs, conns, calls, handlers, nodes, wirings, epoch,
                   log, ret, stopInfo>>
    /\ UNCHANGED outbound
    /\ UNCHANGED proxy

\* a source has played to its end: the 'ended' listener of line 257
PlayEnd(n) == Max(nodes[n].start, nodes[n].at) + nodes[n].dur

SourceEnded(n) ==
    /\ n \in 1..Len(nodes)
    /\ nodes[n].state = "scheduled"
    /\ ctxs[nodes[n].ctx].state = "running"
    /\ ctxs[nodes[n].ctx].time >= PlayEnd(n)
    /\ nodes' = [nodes EXCEPT ![n].state = "ended"]
    /\ sources' = sources \ {n}
    /\ last' = Op("ended", NoMsg, n)
    /\ UNCHANGED <<session, audioContextIn, audioContextOut, nextStartTime,
                   transcriptionHistory, turns, currentUserPCM, currentAiPCM,
                   currentUserText, currentAiText, peaks, lastPeakTime,
                   ctxs, conns, calls, handlers, wirings, now, epoch, log, ret,
                   stopInfo, counters>>
    /\ UNCHANGED outbound
    /\ UNCHANGED proxy

\* --------------------------------------------------------- specifications
Calls    == 1..Len(calls)
Conns    == 1..Len(conns)
Handlers == 1..Len(handlers)
Nodes    == 1..Len(nodes)

Clock == IF audioContextOut = 0 THEN 0 ELSE ctxs[audioContextOut].time

\* Lifecycle: overlapping startSession and stopSession calls and the close
\* events of their connections.
NextLife ==
    \/ counters.stops < MaxStops /\ StopSession
    \/ Len(calls) < MaxCalls /\ \E st \in CtxStates : StartSession(st)
    \/ \E i \in Calls : ResumeIn(i)
    \/ \E i \in Calls : ResumeOut(i)
    \/ \E i \in Calls, g \in BOOLEAN : GetUserMedia(i, g)
    \/ \E i \in Calls, r \in BOOLEAN : Handshake(i, r)
    \/ \E i \in Calls, r \in BOOLEAN : ConnectFail(i, r)
    \/ \E c \in Conns, k \in {"onclose", "onerror"} : CloseEvent(c, k)

SpecLife == Init /\ [][NextLife]_vars

\* Playback: one session receiving model audio and interruptions while the
\* output clock advances.
PlayMessages == {m \in Messages : m.inT = NoText /\ m.outT = NoText
                                  /\ ~m.turnComplete /\ m # NoMsg}

NextPlay ==
    \/ calls = <<>> /\ StartSession("running")
    \/ \E i \in Calls : GetUserMedia(i, TRUE)
    \/ \E i \in Calls : Handshake(i, TRUE)
    \/ counters.msgs < MaxChunks
         /\ \E c \in Conns, m \in PlayMessages : OnMessage(c, m)
    \/ \E h \in Handlers : Resume(h)
    \/ Clock < MaxClock /\ Tick
    \/ \E n \in Nodes : SourceEnded(n)

SpecPlay == Init /\ [][NextPlay]_vars

\* Sending: one session whose capture frames are sent to the connection,
\* with remote close and error and one stop.
NextSend ==
    \/ calls = <<>> /\ StartSession("running")
    \/ \E i \in Calls : GetUserMedia(i, TRUE)
    \/ \E i \in Calls : Handshake(i, TRUE)
    \/ counters.frames < MaxSends /\ \E w \in wirings, f \in Frames : Capture(w, f)
    \/ counters.now < MaxNow /\ NowTick
    \/ \E c \in Conns, k \in {"onclose", "onerror"} : CloseEvent(c, k)
    \/ counters.stops < MaxStops /\ StopSession

SpecSend == Init /\ [][NextSend]_vars

\* Proxy: the worker answers requests.
NextProxy ==
    Len(proxy) < MaxRequests
    /\ \E second \in BOOLEAN, req \in Requests, up \in UpstreamStatuses :
          ProxyRequest(second, req, up)

SpecProxy == Init /\ [][NextProxy]_vars

\* Pace: one session whose frames are scanned for peaks while the wall
\* clock advances and the application resets the counter; every send
\* succeeds.
PaceFrames == {<<100>>, <<32768>>, <<-32768, 32768>>}

NextPace ==
    \/ calls = <<>> /\ StartSession("running")
    \/ \E i \in Calls : GetUserMedia(i, TRUE)
    \/ \E i \in Calls : Handshake(i, TRUE)
    \/ counters.frames < MaxPaceFrames
         /\ \E w \in wirings, f \in PaceFrames : Capture(w, f)
         /\ \A k \in 1..Len(outbound'.captured) : outbound'.captured[k].sent
    \/ counters.now < MaxPaceTicks /\ NowTick
    \/ ResetPaceCounter
    \/ counters.stops < 1 /\ StopSession

SpecPace == Init /\ [][NextPace]_vars

\* Turn aggregation: one session capturing frames and receiving
\* transcription, audio and turnComplete, ended by stopSession.
TurnMessages == {m \in Messages : ~m.interrupted /\ m.audio < 2 /\ m # NoMsg}

NextTurns ==
    \/ calls = <<>> /\ StartSession("running")
    \/ \E i \in Calls : GetUserMedia(i, TRUE)
    \/ \E i \in Calls : Handshake(i, TRUE)
    \/ counters.msgs < MaxMsgs
         /\ \E c \in Conns, m \in TurnMessages : OnMessage(c, m)
    \/ \E h \in Handlers : Resume(h)
    \/ counters.frames < MaxFrames
         /\ \E w \in wirings, f \in Frames : Capture(w, f)
    \/ counters.now < MaxNow /\ NowTick
    \/ counters.stops < 1 /\ StopSession

SpecTurns == Init /\ [][NextTurns]_vars

\* Decoding: one session whose audio chunks may fail to decode, ended by
\* stopSession.
NextDecode ==
    \/ calls = <<>> /\ StartSession("running")
    \/ \E i \in Calls : GetUserMedia(i, TRUE)
    \/ \E i \in Calls : Handshake(i, TRUE)
    \/ counters.msgs < MaxMsgs
         /\ \E c \in Conns, m \in TurnMessages : OnMessage(c, m)
    \/ counters.msgs < MaxMsgs
         /\ \E c \in Conns, m \in TurnMessages : BadChunk(c, m)
    \/ \E h \in Handlers : Resume(h)
    \/ \E h \in Handlers : DecodeFails(h)
    \/ counters.stops < 1 /\ StopSession

SpecDecode == Init /\ [][NextDecode]_vars

\* Restart: a session that receives user transcription and audio is
\* replaced by a second startSession, which is ended by stopSession.
RestartMessages == {m \in TurnMessages : m.outT = NoText}

NextRestart ==
    \/ Len(calls) < 2 /\ (\A i \in Calls : calls[i].pc = "done")
         /\ StartSession("running")
    \/ \E i \in Calls : GetUserMedia(i, TRUE)
    \/ \E i \in Calls : Handshake(i, TRUE)
    \/ counters.msgs < MaxRestartMsgs
         /\ \E c \in Conns, m \in RestartMessages : OnMessage(c, m)
    \/ \E h \in Handlers : Resume(h)
    \/ counters.frames < MaxFrames
         /\ \E w \in wirings, f \in Frames : Capture(w, f)
    \/ counters.stops < 1 /\ StopSession

SpecRestart == Init /\ [][NextRestart]_vars

\* ------------------------------------------------------------------ claims
MsgDone == last.op \in {"onmessage", "scheduled"}

\* C1: within one playback timeline (same output context, no interrupted
\* event in between) the start times handed to source.start are
\* non-decreasing in scheduling order and no two scheduled intervals
\* [start, start + dur) overlap, whatever the interleaving of chunk
\* arrivals, decode completions and clock ticks.
C1_Monotonic ==
    \A a \in Nodes, b \in Nodes :
        (a < b /\ nodes[a].ctx = nodes[b].ctx /\ nodes[a].epoch = nodes[b].epoch)
        => /\ nodes[a].start <= nodes[b].start
           /\ nodes[a].start + nodes[a].dur <= nodes[b].start

\* three chunks on one timeline, scheduled at different clock values
C1_Witness ==
    /\ Len(nodes) = 3
    /\ nodes[1].epoch = nodes[3].epoch
    /\ nodes[1].at < nodes[2].at
    /\ nodes[2].at < nodes[3].at
    /\ nodes[3].start >= 3

\* C2: when a chunk is handed to source.start its start time is
\* max(cursor, output clock) at that moment: it is never earlier than the
\* output clock read at the moment of scheduling.
C2_StartNotBeforeClock ==
    \A n \in Nodes : nodes[n].start >= nodes[n].at

\* C3: a step that processes an interrupted event stops every source that
\* was in the active set (and the one the same message scheduled), leaves
\* the set empty and the cursor at 0, so that the start computed for the
\* next chunk is the output clock alone.
C3_InterruptResets ==
    [][ (last'.op \in {"onmessage", "scheduled"} /\ last'.msg.interrupted)
        => /\ sources' = {}
           /\ nextStartTime' = 0
           /\ \A n \in sources : nodes'[n].state = "stopped"
           /\ \A n \in 1..Len(nodes') : nodes'[n].state = "scheduled"
                                          => n \notin sources /\ n \in Nodes
           /\ CursorAtArrival(nextStartTime', Clock') = Clock' ]_vars

\* an interruption has just cancelled a source while the clock was running
C3_Witness ==
    /\ MsgDone /\ last.msg.interrupted
    /\ \E n \in Nodes : nodes[n].state = "stopped" /\ nodes[n].start > 0
    /\ Clock > 0

Settled(i) == calls[i].pc \in {"done", "failed", "hung"}

Live(c) == conns[c].state = "open"

\* C4: after a stopSession (with no later startSession), once every
\* startSession step that was pending at the call has settled, the handle is
\* null and no connection of the coach is live.
C4_StopLeavesNothingLive ==
    (stopInfo.valid /\ \A i \in stopInfo.pending : Settled(i))
    => (session = 0 /\ \A c \in Conns : ~Live(c))

\* C5: at most one connection opened by the coach is live.
C5_OneLiveConnection ==
    Cardinality({c \in Conns : Live(c)}) <= 1

Released(c) == conns[c].state \in {"closing", "closed"}

\* C6: when startSession creates its contexts or opens its connection,
\* every context and connection acquired by an earlier startSession call
\* has been closed.
C6_PriorResourcesReleased ==
    /\ last.op = "startSession"
       => /\ \A c \in Conns : Released(c)
          /\ \A i \in Calls : i < last.id
                => /\ ctxs[calls[i].ctxIn].state = "closed"
                   /\ ctxs[calls[i].ctxOut].state = "closed"
    /\ last.op = "connect"
       => \A i \in Calls : i < last.id
                => /\ calls[i].conn # 0 => Released(calls[i].conn)
                   /\ ctxs[calls[i].ctxIn].state = "closed"
                   /\ ctxs[calls[i].ctxOut].state = "closed"

\* the turns a step appended to a list old, found in the list new
Added(old, new) == SubSeq(new, Len(old) + 1, Len(new))

OfRole(ts, r) == {k \in 1..Len(ts) : ts[k].role = r}

\* pending text of a role when the turnComplete of message m is reached:
\* the deltas of the same message are appended before
PendingUser(m) == currentUserText \o (IF m.inT = NoText THEN <<>> ELSE m.inT)
PendingAi(m)   == currentAiText \o (IF m.outT = NoText THEN <<>> ELSE m.outT)

\* one role's part of C7
TurnFor(r, text, pcm, rate, ts, text2, pcm2) ==
    IF text # <<>>
    THEN /\ Cardinality(OfRole(ts, r)) = 1
         /\ \A k \in OfRole(ts, r) :
                /\ ts[k].text = text
                /\ ts[k].audioUrl.sampleRate = rate
                /\ ts[k].audioUrl.data = Int16Array(pcm)
         /\ text2 = <<>>
         /\ pcm2 = <<>>
    ELSE OfRole(ts, r) = {}

\* C7: a step that processes turnComplete appends, for each role with
\* non-empty pending text, exactly one Turn with that role, that text and the
\* audio of the role's pending samples at the role's rate (16000 user, 24000
\* model) and empties the role's pending text and samples; a role with empty
\* pending text gets no Turn.
C7_TurnComplete ==
    [][ (last'.op \in {"onmessage", "scheduled"} /\ last'.msg.turnComplete)
        => /\ Len(turns') >= Len(turns)
           /\ SubSeq(turns', 1, Len(turns)) = turns
           /\ TurnFor("user", PendingUser(last'.msg), currentUserPCM, 16000,
                      Added(turns, turns'), currentUserText', currentUserPCM')
           /\ TurnFor("model", PendingAi(last'.msg), currentAiPCM, 24000,
                      Added(turns, turns'), currentAiText', currentAiPCM') ]_vars

\* a turnComplete has just finalized a user turn and a model turn, both with
\* samples
C7_Witness ==
    /\ MsgDone /\ last.msg.turnComplete
    /\ Len(turns) = 2
    /\ turns[1].role = "user" /\ turns[1].audioUrl.data # <<>>
    /\ turns[2].role = "model" /\ turns[2].audioUrl.data # <<>>
    /\ currentUserText = <<>> /\ currentAiPCM = <<>>

Stopped == last.op = "stopSession"

\* one role's part of C8
FlushFor(r, text, pcm, old, new) ==
    /\ (text # <<>> /\ pcm # <<>>)
       => \E k \in OfRole(Added(old, new), r) : Added(old, new)[k].text = text
    /\ (text = <<>> /\ pcm = <<>>) => OfRole(Added(old, new), r) = {}

\* C8: stopSession with non-empty pending samples and text of a role returns
\* a list holding a Turn of that role with that text; with both pending
\* buffers of a role empty it adds no Turn of that role.
C8_StopFlush ==
    [][ last'.op = "stopSession"
        => /\ SubSeq(ret'.recordedTurns, 1, Len(turns)) = turns
           /\ FlushFor("user", currentUserText, currentUserPCM,
                       turns, ret'.recordedTurns)
           /\ FlushFor("model", currentAiText, currentAiPCM,
                       turns, ret'.recordedTurns) ]_vars

\* stopSession has just flushed a transcribed user turn and nothing for the
\* model, whose turn had been finalized before
C8_Witness ==
    /\ Stopped
    /\ Len(ret.recordedTurns) = 2
    /\ ret.recordedTurns[1].role = "model"
    /\ ret.recordedTurns[1].id[1] = "m-"
    /\ ret.recordedTurns[2].role = "user"
    /\ ret.recordedTurns[2].id[1] = "u-final-"
    /\ ret.recordedTurns[2].text # <<>>
    /\ ret.recordedTurns[2].audioUrl.data # <<>>

\* one role's part of C9 at turnComplete and at stopSession
KeptFor(r, text, pcm, pcm2, ts) ==
    (text = <<>> /\ pcm # <<>>) => (OfRole(ts, r) = {} /\ pcm2 = pcm)

UntextedFlush(r, text, pcm, rate, ts) ==
    (text = <<>> /\ pcm # <<>>)
    => /\ Cardinality(OfRole(ts, r)) = 1
       /\ \A k \in OfRole(ts, r) :
            /\ ts[k].text = <<>>
            /\ ts[k].audioUrl.data = Int16Array(pcm)
            /\ ts[k].audioUrl.sampleRate = rate

\* C9: a role with pending samples and no pending text gets no Turn at
\* turnComplete and keeps its samples; stopSession flushes it into a Turn
\* with empty text whose audio is built from those samples.
C9_UntranscribedAudio ==
    [][ /\ (last'.op \in {"onmessage", "scheduled"} /\ last'.msg.turnComplete)
           => /\ KeptFor("user", PendingUser(last'.msg), currentUserPCM,
                         currentUserPCM', Added(turns, turns'))
              /\ KeptFor("model", PendingAi(last'.msg), currentAiPCM,
                         currentAiPCM', Added(turns, turns'))
        /\ last'.op = "stopSession"
           => /\ UntextedFlush("user", currentUserText, currentUserPCM, 16000,
                               Added(turns, ret'.recordedTurns))
              /\ UntextedFlush("model", currentAiText, currentAiPCM, 24000,
                               Added(turns, ret'.recordedTurns)) ]_vars

\* samples without text survived a turnComplete and were flushed at stop
C9_Witness ==
    /\ Stopped
    /\ log.lines = <<>>
    /\ counters.msgs >= 2
    /\ \E k \in 1..Len(ret.recordedTurns) :
          /\ ret.recordedTurns[k].text = <<>>
          /\ ret.recordedTurns[k].role = "user"
          /\ ret.recordedTurns[k].audioUrl.data # <<>>
    /\ \E k \in 1..Len(ret.recordedTurns) :
          /\ ret.recordedTurns[k].text = <<>>
          /\ ret.recordedTurns[k].role = "model"

\* the transcript text of the logged deltas: "User: "/"AI: " + delta, one
\* line per delta, separated by newlines
RECURSIVE Transcript(_)
Transcript(ls) ==
    IF ls = <<>> THEN <<>>
    ELSE LET l    == ls[Len(ls)]
             line == <<IF l[1] = "user" THEN "User: " ELSE "AI: ">> \o l[2]
         IN  IF Len(ls) = 1 THEN line
             ELSE Transcript(SubSeq(ls, 1, Len(ls) - 1)) \o <<"\n">> \o line

\* C10: stopSession returns the transcript and the turn list accumulated
\* since the session started; when it returns, the turn list, the history,
\* both roles' pending text and samples are empty, the pace counter is 0 and
\* the connection handle and both audio contexts are null.
C10_StopReturns ==
    [][ last'.op = "stopSession"
        => /\ ret'.history = Transcript(log.lines)
           /\ Len(ret'.recordedTurns) >= log.finalized
           /\ SubSeq(ret'.recordedTurns, 1, log.finalized) = turns
           /\ turns' = <<>> /\ transcriptionHistory' = <<>>
           /\ currentUserText' = <<>> /\ currentAiText' = <<>>
           /\ currentUserPCM' = <<>> /\ currentAiPCM' = <<>>
           /\ peaks' = 0
           /\ session' = 0 /\ audioContextIn' = 0 /\ audioContextOut' = 0 ]_vars

\* stopSession has just returned two transcript lines and a finalized turn
\* after a peak had been counted
C10_Witness ==
    /\ Stopped
    /\ Len(ret.history) >= 5
    /\ Len(ret.recordedTurns) >= 2
    /\ ret.recordedTurns[1].id[1] \in {"u-", "m-"}
    /\ lastPeakTime > 0
    /\ peaks = 0 /\ turns = <<>>
    /\ \E c \in Conns : conns[c].state = "closing"

\* the contexts created by startSession call i are both closed
ContextsClosed(i) ==
    /\ ctxs[calls[i].ctxIn].state = "closed"
    /\ ctxs[calls[i].ctxOut].state = "closed"

\* C11: when the application's onerror callback is invoked for a
\* connection, that connection is closed, the handle is null and both audio
\* contexts of the session are closed.
C11_ErrorCleansUp ==
    last.op = "onerror"
    => /\ conns[last.id].state = "closed"
       /\ session = 0
       /\ ContextsClosed(conns[last.id].call)

\* C12: when startSession fails (microphone refused, connection not
\* established), both contexts created by that call are closed and no
\* connection opened by it is live.
C12_FailedStartReleases ==
    last.op \in {"micDenied", "connectFailed"}
    => /\ ContextsClosed(last.id)
       /\ calls[last.id].conn # 0 => ~Live(calls[last.id].conn)

\* C13: when stopSession returns, whatever happened to the session before
\* (remote close or error, a failed or pending startSession), every audio
\* context the coach created is closed, both context fields are null and
\* the connection handle is null.
C13_StopClosesAll ==
    Stopped
    => /\ session = 0 /\ audioContextIn = 0 /\ audioContextOut = 0
       /\ \A x \in 1..Len(ctxs) : ctxs[x].state = "closed"

\* stopSession has returned after one startSession failed and the
\* connection of another was closed from the remote side
C13_Witness ==
    /\ Stopped
    /\ \E i \in Calls : calls[i].pc = "failed"
    /\ \E c \in Conns : conns[c].state = "closed"
    /\ Len(ctxs) = 4
    /\ \A x \in 1..Len(ctxs) : ctxs[x].state = "closed"

\* the steps in which onmessage starts handling a message, and those in which
\* a handler suspended at line 253 goes on or is abandoned
Arrivals == {"onmessage", "onmessageAwait", "onmessageThrow", "badChunk"}

Continuations == {"scheduled", "resumeThrow", "decodeFailed"}

\* the suspended handler that a continuation step takes up
Taken == CHOOSE h \in Handlers :
            \A k \in 1..Len(handlers') : handlers'[k].seq # handlers[h].seq

\* the arrival number of the message whose effects a step applies
ActingSeq == IF last'.op \in Continuations THEN handlers[Taken].seq
             ELSE counters'.msgs

\* C14: the effects of inbound messages are applied in delivery order: when
\* a step applies effects of a message, no message delivered earlier still
\* has effects to apply.
C14_DeliveryOrder ==
    [][ last'.op \in Arrivals \cup Continuations
        => \A h \in Handlers : handlers[h].seq >= ActingSeq ]_vars

\* C15: no inbound message and no capture frame starts being handled while
\* the handling of an earlier inbound message is still in progress.
C15_NoInterleaving ==
    [][ last'.op \in Arrivals \cup {"capture", "captureSkipped"}
        => handlers = <<>> ]_vars

Wire == 1..Len(outbound.wire)

Captured == 1..Len(outbound.captured)

\* C16: what sendRealtimeInput received on a connection are frames that
\* onaudioprocess accepted for it, in the order of their capture and each at
\* most once.
C16_SendOrder ==
    /\ \A a \in Wire, b \in Wire :
          (a < b /\ outbound.wire[a].conn = outbound.wire[b].conn)
          => outbound.wire[a].id < outbound.wire[b].id
    /\ \A a \in Wire : \E k \in Captured :
          /\ outbound.captured[k].id = outbound.wire[a].id
          /\ outbound.captured[k].conn = outbound.wire[a].conn
          /\ outbound.captured[k].sent
          /\ outbound.wire[a].media = createBlob(outbound.captured[k].frame)

\* three frames were captured, the second was not sent, and the connection
\* received the first and the third, which differ
C16_Witness ==
    /\ Len(outbound.captured) = 3
    /\ ~outbound.captured[2].sent
    /\ Len(outbound.wire) = 2
    /\ outbound.wire[1].id = 1 /\ outbound.wire[2].id = 3
    /\ outbound.wire[1].media # outbound.wire[2].media

\* the frame handled by the last capture step
LastCaptured == outbound'.captured[Len(outbound'.captured)]

\* C17: when the send of a capture frame fails, the callback still ends
\* normally with the frame buffered and its peaks counted, exactly as when
\* the send succeeds; the handle, the pending text, the model's pending
\* samples and the turn list are untouched and the capture graph stays in
\* place, so that later frames are captured and sent.
C17_SendFailureContained ==
    [][ (last'.op = "capture" /\ ~LastCaptured.sent)
        => LET st == CaptureLoop(LastCaptured.frame,
                         [pcm |-> currentUserPCM, peaks |-> peaks,
                          lastPeakTime |-> lastPeakTime])
           IN  /\ currentUserPCM' = st.pcm
               /\ peaks' = st.peaks
               /\ session' = session
               /\ UNCHANGED <<currentUserText, currentAiText, currentAiPCM,
                              turns, transcriptionHistory, wirings, conns,
                              ctxs>> ]_vars

\* after a frame with a peak whose send failed on an open connection, a
\* later frame was captured and sent
C17_Witness ==
    /\ last.op = "capture"
    /\ Len(outbound.captured) >= 2
    /\ ~outbound.captured[1].sent
    /\ outbound.captured[1].frame = <<32768>>
    /\ outbound.captured[Len(outbound.captured)].sent
    /\ peaks >= 1
    /\ Len(currentUserPCM) = Len(outbound.captured)

\* the number of transcript lines a message adds
LinesOf(m) == (IF m.inT # NoText THEN 1 ELSE 0) + (IF m.outT # NoText THEN 1 ELSE 0)

\* the model's pending samples before the undecodable chunk arrived
BeforeChunk == IF last'.op = "decodeFailed" THEN handlers[Taken].before
               ELSE currentAiPCM

\* C18: when the audio chunk of a message cannot be decoded, the connection
\* stays open, the chunk adds nothing to the model's pending samples and no
\* source to the schedule, and the other events of the message are
\* processed: its transcription reaches the history and its turnComplete
\* finalizes the pending user text.
C18_OnlyChunkDropped ==
    [][ last'.op \in {"badChunk", "decodeFailed"}
        => /\ conns'[last'.id].state = "open"
           /\ nodes' = nodes
           /\ ~last'.msg.turnComplete => currentAiPCM' = BeforeChunk
           /\ Len(transcriptionHistory')
                = Len(transcriptionHistory) + LinesOf(last'.msg)
           /\ (last'.msg.turnComplete /\ currentUserText # <<>>)
                => Len(turns') > Len(turns) ]_vars

\* C19: the step that processes an interrupted event changes the source set
\* and nextStartTime only: the handle, both contexts, both roles' pending
\* text and samples, the turn list, the history and the pace counter stay
\* as they were.
C19_InterruptFrame ==
    [][ (MsgDone' /\ last'.msg.interrupted)
        => UNCHANGED <<session, audioContextIn, audioContextOut,
                       currentUserText, currentAiText, currentUserPCM,
                       currentAiPCM, turns, transcriptionHistory, peaks,
                       lastPeakTime, ctxs, conns>> ]_vars

\* an interrupted event has just stopped a scheduled source while samples
\* of the model's turn were pending
C19_Witness ==
    /\ MsgDone /\ last.msg.interrupted
    /\ session # 0
    /\ currentAiPCM # <<>>
    /\ sources = {} /\ nextStartTime = 0
    /\ \E n \in Nodes : nodes[n].state = "stopped"

\* C20: while a session is active, nextStartTime never decreases from one
\* state to the next, except when the processing of an interrupted event
\* resets it to 0.
C20_CursorNeverDecreases ==
    [][ session # 0
        => \/ nextStartTime' >= nextStartTime
           \/ MsgDone' /\ last'.msg.interrupted /\ nextStartTime' = 0 ]_vars

\* after an interruption reset the cursor, two more chunks were scheduled
\* and the cursor is ahead of the clock again
C20_Witness ==
    /\ session # 0
    /\ epoch >= 1
    /\ nextStartTime > Clock /\ Clock > 0
    /\ Cardinality({n \in Nodes : nodes[n].epoch = epoch}) >= 2

\* the moves of one connection: Connecting -> Open -> Closed, Connecting ->
\* Closed, with the socket's closing phase between Open and Closed
ConnMoves ==
    {<<"connecting", "open">>, <<"connecting", "closed">>,
     <<"open", "closing">>, <<"open", "closed">>, <<"closing", "closed">>}

\* C21: every connection moves Connecting -> Open -> Closed only and a
\* closed one never changes again; a connection is created only by a step
\* of a startSession call (its ai.live.connect), one per call, and starts
\* in Connecting.
C21_NoReconnect ==
    [][ /\ Len(conns') >= Len(conns)
        /\ \A c \in Conns :
              \/ conns'[c] = conns[c]
              \/ /\ <<conns[c].state, conns'[c].state>> \in ConnMoves
                 /\ conns'[c].call = conns[c].call
        /\ Len(conns') > Len(conns)
           => /\ last'.op = "connect"
              /\ Len(conns') = Len(conns) + 1
              /\ conns'[Len(conns')].state = "connecting"
              /\ calls[last'.id].conn = 0
              /\ calls'[last'.id].conn = Len(conns') ]_vars

\* a connection was closed and a later startSession call
\* has opened another one
C21_Witness ==
    /\ Len(conns) = 2
    /\ conns[1].state = "closed" /\ conns[2].state = "open"
    /\ session = 2
    /\ calls[2].conn = 2

\* the samples above the threshold among the accepted frames: <<frame, index>>
LoudSamples ==
    {q \in Captured \X (1..2) :
        /\ q[2] <= Len(outbound.captured[q[1]].frame)
        /\ Abs(outbound.captured[q[1]].frame[q[2]]) > PeakLevel}

\* those handled since the pace counter was last reset
LoudSince == {q \in LoudSamples : q[1] > outbound.mark}

\* the wall-clock time at which a sample was handled
At(q) == outbound.captured[q[1]].at

Gap(p, q) == Abs(At(p) - At(q))

\* C22: when any two samples above the threshold are handled further apart
\* than the refractory interval, the pace counter equals the number of such
\* samples since the last reset; when those since the last reset are all
\* closer together than the refractory interval, and further than it from
\* every earlier one, the counter is 1.
C22_PaceCount ==
    /\ (\A p \in LoudSamples, q \in LoudSamples :
            p # q => Gap(p, q) > RefractoryMs)
       => peaks = Cardinality(LoudSince)
    /\ ( /\ LoudSince # {}
         /\ \A p \in LoudSince, q \in LoudSince : Gap(p, q) < RefractoryMs
         /\ \A p \in LoudSamples \ LoudSince, q \in LoudSince :
               Gap(p, q) > RefractoryMs )
       => peaks = 1

\* three samples above the threshold, handled 300 ms apart, have been
\* counted
C22_Witness ==
    /\ session # 0
    /\ outbound.mark = 0
    /\ Cardinality(LoudSamples) = 3
    /\ \A p \in LoudSamples, q \in LoudSamples :
          p # q => Gap(p, q) > RefractoryMs
    /\ peaks = 3

\* two frames with three samples above the threshold, handled in the same
\* millisecond after a reset, count as one peak
C22_WitnessBurst ==
    /\ outbound.mark = 1
    /\ Cardinality(LoudSince) = 3
    /\ \A p \in LoudSince, q \in LoudSince : Gap(p, q) = 0
    /\ peaks = 1

\* the frame of the last capture step has a sample above the threshold
LoudFrame ==
    \E j \in 1..Len(LastCaptured.frame) : Abs(LastCaptured.frame[j]) > PeakLevel

\* C23: a frame with a sample above the threshold adds a peak when at least
\* the refractory interval has elapsed since the last counted peak, exactly
\* 150 ms included, and adds none otherwise.
C23_RefractoryInclusive ==
    [][ last'.op = "capture"
        => peaks' = peaks + (IF LoudFrame /\ now - lastPeakTime >= RefractoryMs
                             THEN 1 ELSE 0) ]_vars

\* C24: resetPaceCounter and stopSession set the pace counter and the
\* last-peak timestamp back to 0, and a capture step lowers neither.
C24_ResetsBoth ==
    [][ /\ last'.op \in {"resetPaceCounter", "stopSession"}
           => peaks' = 0 /\ lastPeakTime' = 0
        /\ last'.op \in {"capture", "captureSkipped"}
           => peaks' >= peaks /\ lastPeakTime' >= lastPeakTime ]_vars

\* C25 as stated, in a session with a single turnComplete: after the
\* turnComplete was processed with both pending texts non-empty, the
\* following stopSession returns exactly two Turns, the user's and then the
\* model's.
C25_ExactlyTwo ==
    [][ (last'.op = "stopSession" /\ log.both = 1 /\ log.finalized = 2)
        => /\ Len(ret'.recordedTurns) = 2
           /\ ret'.recordedTurns[1].role = "user"
           /\ ret'.recordedTurns[2].role = "model" ]_vars

\* nothing is pending for either role
NothingPending ==
    /\ currentUserText = <<>> /\ currentAiText = <<>>
    /\ currentUserPCM = <<>> /\ currentAiPCM = <<>>

\* C25 amended: a turnComplete processed with both pending texts non-empty
\* appends two Turns, the user's and then the model's, each with an audio
\* reference on the role's pending samples and the text accumulated for its
\* role; the following stopSession returns them in that order, and returns
\* exactly these two when no other turn was finalized and nothing is
\* pending at the stop.
C25_TwoTurnsInOrder ==
    [][ /\ ( /\ last'.op \in {"onmessage", "scheduled"}
             /\ last'.msg.turnComplete
             /\ PendingUser(last'.msg) # <<>> /\ PendingAi(last'.msg) # <<>> )
           => /\ Len(turns') = Len(turns) + 2
              /\ turns'[Len(turns) + 1].role = "user"
              /\ turns'[Len(turns) + 1].text = PendingUser(last'.msg)
              /\ turns'[Len(turns) + 1].audioUrl
                    = pcmToWav(Int16Array(currentUserPCM), UserRate)
              /\ turns'[Len(turns) + 2].role = "model"
              /\ turns'[Len(turns) + 2].text = PendingAi(last'.msg)
              /\ turns'[Len(turns) + 2].audioUrl
                    = pcmToWav(Int16Array(currentAiPCM), ModelRate)
        /\ (last'.op = "stopSession" /\ log.both >= 1)
           => /\ SubSeq(ret'.recordedTurns, 1, Len(turns)) = turns
              /\ \E k \in 1..(Len(turns) - 1) :
                    turns[k].role = "user" /\ turns[k + 1].role = "model"
              /\ (log.finalized = 2 /\ NothingPending)
                    => Len(ret'.recordedTurns) = 2 ]_vars

\* stopSession has returned exactly the user Turn and the model Turn that
\* one turnComplete finalized, both with samples
C25_Witness ==
    /\ Stopped
    /\ Len(ret.recordedTurns) = 2
    /\ ret.recordedTurns[1].role = "user" /\ ret.recordedTurns[1].id[1] = "u-"
    /\ ret.recordedTurns[2].role = "model" /\ ret.recordedTurns[2].id[1] = "m-"
    /\ ret.recordedTurns[1].text # <<>> /\ ret.recordedTurns[2].text # <<>>
    /\ ret.recordedTurns[1].audioUrl.data # <<>>
    /\ ret.recordedTurns[2].audioUrl.data # <<>>

\* a turnComplete reached with no pending text for either role
EmptyTurnComplete(m) ==
    m.turnComplete /\ PendingUser(m) = <<>> /\ PendingAi(m) = <<>>

\* C26: a turnComplete processed while both roles' pending text is empty
\* appends no Turn and changes neither the pending samples nor the pending
\* text; when the message carries nothing else the whole state of the coach
\* is unchanged.
C26_EmptyTurnComplete ==
    [][ (MsgDone' /\ EmptyTurnComplete(last'.msg))
        => /\ UNCHANGED <<turns, currentUserText, currentAiText,
                          currentUserPCM, currentAiPCM, transcriptionHistory,
                          session, peaks, lastPeakTime>>
           /\ (last'.msg.audio = 0 /\ ~last'.msg.interrupted)
                => UNCHANGED coach ]_vars

\* a second turnComplete, with no transcription since the first, has been
\* processed while captured samples were pending
C26_Witness ==
    /\ last.op = "onmessage"
    /\ last.msg.turnComplete /\ last.msg.audio = 0
    /\ last.msg.inT = NoText /\ last.msg.outT = NoText
    /\ Len(turns) = 1
    /\ currentUserText = <<>> /\ currentAiText = <<>>
    /\ currentUserPCM # <<>>

\* C27: the Turns returned by stopSession have pairwise distinct ids and
\* stand in the order in which they were finalized: the Turns finalized by
\* turnComplete events, in that order, then those flushed by the stop.
C27_DistinctIds ==
    [][ last'.op = "stopSession"
        => /\ \A a \in 1..Len(ret'.recordedTurns),
                 b \in 1..Len(ret'.recordedTurns) :
                 a # b => ret'.recordedTurns[a].id # ret'.recordedTurns[b].id
           /\ SubSeq(ret'.recordedTurns, 1, Len(turns)) = turns ]_vars

\* C28: when the application asks for the critique, stopSession has
\* returned the transcript of the session, the coach holds no session any
\* more and no connection is live.
C28_AnalysisAfterStop ==
    stopInfo.analysis
    => /\ stopInfo.valid
       /\ ret # NoRet /\ NotBlank(ret.history)
       /\ Stopped
          => /\ session = 0 /\ audioContextIn = 0 /\ audioContextOut = 0
             /\ transcriptionHistory = <<>>
             /\ \A c \in Conns : ~Live(c)

\* the application has just asked for the critique of a session with a
\* transcript, whose connection is closing
C28_Witness ==
    /\ Stopped
    /\ stopInfo.analysis
    /\ Len(ret.history) >= 2
    /\ \E c \in Conns : conns[c].state = "closing"

\* C29: a stopSession that directly follows a stopSession returns an empty
\* transcript and an empty turn list and changes nothing in the coach, its
\* contexts and its connections.
C29_StopIdempotent ==
    [][ (Stopped /\ last'.op = "stopSession")
        => /\ ret'.history = <<>>
           /\ ret'.recordedTurns = <<>>
           /\ UNCHANGED <<coach, ctxs, conns, wirings, nodes>> ]_vars

\* a second stopSession has returned nothing right after a first one that
\* flushed captured frames and closed the connection
C29_Witness ==
    /\ Stopped
    /\ counters.stops = 2
    /\ ret.recordedTurns = <<>> /\ ret.history = <<>>
    /\ outbound.captured # <<>>
    /\ outbound.mark = Len(outbound.captured)
    /\ lastPeakTime > 0
    /\ \E c \in Conns : conns[c].state = "closing"

\* C30: whatever the request, the worker forwards to its hardcoded Gemini
\* endpoint only, the secret goes nowhere else, and a request that gets as
\* far as forwarding while the secret is missing is answered 500 with
\* nothing forwarded.
C30_HardcodedUpstream ==
    \A k \in 1..Len(proxy) :
        /\ proxy[k].res.upstream \in {NoUrl, GeminiUrl}
        /\ proxy[k].res.key => proxy[k].res.upstream = GeminiUrl
        /\ ~proxy[k].req.secret => proxy[k].res.upstream = NoUrl
        /\ ( /\ ~proxy[k].req.secret /\ proxy[k].req.method = "POST"
             /\ proxy[k].req.json /\ proxy[k].req.path = "/api/proxy"
             /\ proxy[k].req.target # NoUrl )
           => proxy[k].res.status = SecretMissing

\* C31: an onclose or onerror callback of the connection of an earlier
\* startSession call leaves the handle alone when the handle holds the
\* connection of a later call.
C31_StaleCloseKeepsHandle ==
    [][ ( /\ last'.op \in {"onclose", "onerror"}
          /\ session # 0
          /\ conns[last'.id].call < conns[session].call )
        => session' = session ]_vars

\* C32: a chunk is started on the playback timeline on which it arrived: no
\* interrupted event was processed between the arrival of a chunk and the
\* start of its source.  (Within one session the timeline changes only when
\* an interrupted event is processed.)
C32_NoStartAfterInterrupt ==
    \A n \in Nodes : nodes[n].arrived = nodes[n].epoch

\* C33: every source in the active-source set was scheduled on the current
\* output context and has neither ended nor been stopped; the set is empty
\* when stopSession has returned and when startSession has begun.
C33_ActiveSources ==
    /\ \A n \in sources :
           /\ n \in Nodes
           /\ nodes[n].ctx = audioContextOut
           /\ nodes[n].state = "scheduled"
    /\ last.op \in {"stopSession", "startSession"} => sources = {}

\* the steps in which onmessage, or its continuation after the decode, runs
InboundOps == {"onmessage", "onmessageAwait", "onmessageThrow", "scheduled",
               "resumeThrow", "decodeFailed", "badChunk"}

\* C34: once stopSession has returned, and until startSession is called
\* again, the handling of an inbound message leaves both roles' pending
\* text and samples, the transcript history and the turn list empty.
C34_NoEffectAfterStop ==
    [][ (stopInfo.valid /\ last'.op \in InboundOps)
        => /\ currentUserText' = <<>> /\ currentAiText' = <<>>
           /\ currentUserPCM' = <<>> /\ currentAiPCM' = <<>>
           /\ transcriptionHistory' = <<>> /\ turns' = <<>> ]_vars

\* C35: a handler that was suspended at the decode when stopSession ran
\* goes on without throwing and without creating or registering a source.
C35_ResumeAfterStopIsQuiet ==
    [][ ( /\ last'.op \in Continuations
          /\ handlers[Taken].stops < counters.stops )
        => /\ last'.op \notin {"resumeThrow", "decodeFailed"}
           /\ nodes' = nodes
           /\ sources' = sources ]_vars

\* the concatenation of the deltas of role r in a sequence of <<role, delta>>
RECURSIVE DeltaText(_, _)
DeltaText(ls, r) ==
    IF ls = <<>> THEN <<>>
    ELSE (IF Head(ls)[1] = r THEN Head(ls)[2] ELSE <<>>) \o DeltaText(Tail(ls), r)

\* the concatenation of the text of the turns of role r in a turn list
RECURSIVE TurnText(_, _)
TurnText(ts, r) ==
    IF ts = <<>> THEN <<>>
    ELSE (IF Head(ts).role = r THEN Head(ts).text ELSE <<>>) \o TurnText(Tail(ts), r)

\* C36: for each role, the text of that role's Turns in the list returned
\* by stopSession, concatenated in list order, is the concatenation in
\* arrival order of the transcription deltas received for that role since
\* the session started.
C36_NoTextLost ==
    [][ last'.op = "stopSession"
        => \A r \in {"user", "model"} :
              TurnText(ret'.recordedTurns, r) = DeltaText(log.heard, r) ]_vars

\* C37: the transcript stopSession returns is made of the transcription
\* deltas received since the previous stopSession, in arrival order, one
\* line per delta, labelled "User: " or "AI: " and joined by newlines.
C37_TranscriptIsReceived ==
    [][ last'.op = "stopSession"
        => ret'.history = Transcript(log.heard) ]_vars

\* C38: a capture frame delivered while the handle is null leaves the
\* pending user samples and the pace counter (with its last peak time) as
\* they were and puts nothing on any connection.
C38_NullHandleDropsFrame ==
    [][ (counters'.frames = counters.frames + 1 /\ session = 0)
        => /\ currentUserPCM' = currentUserPCM
           /\ peaks' = peaks /\ lastPeakTime' = lastPeakTime
           /\ outbound'.wire = outbound.wire
           /\ outbound'.captured = outbound.captured ]_vars

\* a frame has just been dropped after the connection was closed by the
\* remote side or failed, while samples of earlier frames are pending
C38_Witness ==
    /\ last.op = "captureSkipped"
    /\ session = 0
    /\ currentUserPCM # <<>>
    /\ outbound.wire # <<>>
    /\ conns[last.id].state = "closed"

\* C39: when stopSession has returned, the microphone stream of every
\* startSession call that had completed is released and its capture context
\* is closed.
C39_MicReleased ==
    last.op = "stopSession"
    => \A i \in Calls :
          calls[i].pc = "done"
          => /\ calls[i].stream # "live"
             /\ ctxs[calls[i].ctxIn].state = "closed"

\* the number of samples in the frames accepted since the last reset of the
\* session state
RECURSIVE SamplesSince(_)
SamplesSince(k) ==
    IF k > Len(outbound.captured) THEN 0
    ELSE Len(outbound.captured[k].frame) + SamplesSince(k + 1)

\* the number of samples in the audio of the turns of role r
RECURSIVE TurnSamples(_, _)
TurnSamples(ts, r) ==
    IF ts = <<>> THEN 0
    ELSE (IF Head(ts).role = r THEN Len(Head(ts).audioUrl.data) ELSE 0)
         + TurnSamples(Tail(ts), r)

\* C40: when startSession has been called, the turn list, the history and
\* both roles' pending text and samples are empty; and what a later
\* stopSession returns holds no more transcript lines, turn text and user
\* samples than were received since that call.
C40_StartDiscards ==
    [][ /\ last'.op = "startSession"
           => /\ turns' = <<>> /\ transcriptionHistory' = <<>>
              /\ currentUserText' = <<>> /\ currentAiText' = <<>>
              /\ currentUserPCM' = <<>> /\ currentAiPCM' = <<>>
        /\ last'.op = "stopSession"
           => /\ Len(transcriptionHistory) <= Len(log.heard)
              /\ \A r \in {"user", "model"} :
                    Len(TurnText(ret'.recordedTurns, r))
                       <= Len(DeltaText(log.heard, r))
              /\ TurnSamples(ret'.recordedTurns, "user")
                    <= SamplesSince(outbound.mark + 1) ]_vars
====
